---- MODULE Spec2Model ----
(***************************************************************************)
(* Model of src/app.py: the quiz generation endpoint (generate_ai_quiz),   *)
(* the provider-backed generator (_generate_quiz_with_openai), the         *)
(* response parser (_parse_quiz_response) and the fallback catalog         *)
(* (_get_fallback_quiz).                                                   *)
(*                                                                         *)
(* Text is a sequence of tokens.  A token is one character (" ", "\n",     *)
(* ".", a digit, a letter) or one of the literal markers of the source,    *)
(* written in ASCII because module strings are ASCII:                      *)
(*     "Q:"  is  問題:      "A:"  is  正解:      "E:"  is  解説:           *)
(*     "Daibutsu" is 大仏   "Hachimangu" is 八幡宮                         *)
(* A fixed Japanese sentence of the source is one token named after its    *)
(* meaning, so that two different sentences are two different tokens.      *)
(***************************************************************************)
EXTENDS Integers, Sequences, FiniteSets, TLC

VARIABLES
    openai_client,  \* the module-level client: FALSE is None (app.py:42-51)
    pc,             \* per request slot: "idle", "received", "calling", "done"
    request,        \* per slot: the QuizRequest being handled
    response,       \* per slot: the QuizResponse returned
    calls,          \* per slot: number of provider calls issued (history)
    outcome,        \* per slot: how the provider call ended, <<>> before (history)
    producer,       \* per slot: which function built the returned quiz (history)
    phase,          \* pure-function harness: "input" or "output"
    raw,            \* pure-function harness: the parser's response argument
    points,         \* pure-function harness: the parser's points argument
    parsed,         \* pure-function harness: the parser's result
    fb_name,        \* pure-function harness: _get_fallback_quiz's spot_name
    fb_difficulty,  \* pure-function harness: _get_fallback_quiz's difficulty
    fb_quiz         \* pure-function harness: _get_fallback_quiz's result

serverVars == <<openai_client, pc, request, response, calls, outcome, producer>>
parserVars == <<phase, raw, points, parsed>>
fallbackVars == <<fb_name, fb_difficulty, fb_quiz>>
vars == <<openai_client, pc, request, response, calls, outcome, producer,
          phase, raw, points, parsed, fb_name, fb_difficulty, fb_quiz>>

---------------------------------------------------------------------------
(* Bounds of the model *)

\* request slots handled concurrently
NumRequests == 2
\* longest spot_name, in tokens
MaxNameLen == 2
\* most lines of a raw text made of option-like lines
MaxOptLines == 5
\* most lines of a raw text made of question/answer/explanation lines
MaxFieldLines == 2

---------------------------------------------------------------------------
(* Strings *)

\* all sequences over S of length at most n
SeqsUpTo(S, n) == UNION {[1..k -> S] : k \in 0..n}

Whitespace == {" ", "\n"}

\* str.strip(): drop leading whitespace
RECURSIVE LStrip(_)
LStrip(s) ==
    IF s # <<>> /\ Head(s) \in Whitespace THEN LStrip(Tail(s)) ELSE s

\* str.strip(): drop trailing whitespace
RECURSIVE RStrip(_)
RStrip(s) ==
    IF s # <<>> /\ s[Len(s)] \in Whitespace
    THEN RStrip(SubSeq(s, 1, Len(s) - 1)) ELSE s

Strip(s) == RStrip(LStrip(s))

\* str.split('\n'): the pieces between newline tokens, empty pieces included
RECURSIVE SplitAcc(_, _, _)
SplitAcc(s, cur, acc) ==
    IF s = <<>> THEN Append(acc, cur)
    ELSE IF Head(s) = "\n" THEN SplitAcc(Tail(s), <<>>, Append(acc, cur))
    ELSE SplitAcc(Tail(s), Append(cur, Head(s)), acc)

Split(s) == SplitAcc(s, <<>>, <<>>)

\* "\n".join(lines)
RECURSIVE Join(_)
Join(ls) ==
    IF ls = <<>> THEN <<>>
    ELSE IF Len(ls) = 1 THEN ls[1]
    ELSE ls[1] \o <<"\n">> \o Join(Tail(ls))

\* str.startswith(prefix)
StartsWith(s, prefix) ==
    Len(s) >= Len(prefix) /\ SubSeq(s, 1, Len(prefix)) = prefix

\* str.replace(marker, ''): every occurrence of the marker is removed
Replace(s, marker) == SelectSeq(s, LAMBDA t : t # marker)

\* removeprefix: only the leading marker is removed
StripLeading(s, marker) == IF s # <<>> /\ Head(s) = marker THEN Tail(s) ELSE s

Digits == {"0", "1", "2", "3", "4", "5", "6", "7", "8", "9"}

DigitVal(d) ==
    CASE d = "0" -> 0 [] d = "1" -> 1 [] d = "2" -> 2 [] d = "3" -> 3
      [] d = "4" -> 4 [] d = "5" -> 5 [] d = "6" -> 6 [] d = "7" -> 7
      [] d = "8" -> 8 [] d = "9" -> 9

RECURSIVE DigitsVal(_, _)
DigitsVal(s, acc) ==
    IF s = <<>> THEN acc ELSE DigitsVal(Tail(s), 10 * acc + DigitVal(Head(s)))

AllDigits(s) == s # <<>> /\ \A i \in 1..Len(s) : s[i] \in Digits

\* int(text): an optional sign and decimal digits, surrounding whitespace
\* ignored; anything else raises ValueError (ok = FALSE)
ParseInt(text) ==
    LET s == Strip(text) IN
    IF AllDigits(s) THEN [ok |-> TRUE, val |-> DigitsVal(s, 0)]
    ELSE IF s # <<>> /\ Head(s) = "-" /\ AllDigits(Tail(s))
        THEN [ok |-> TRUE, val |-> 0 - DigitsVal(Tail(s), 0)]
    ELSE IF s # <<>> /\ Head(s) = "+" /\ AllDigits(Tail(s))
        THEN [ok |-> TRUE, val |-> DigitsVal(Tail(s), 0)]
    ELSE [ok |-> FALSE, val |-> 0]

Max(a, b) == IF a >= b THEN a ELSE b
Min(a, b) == IF a <= b THEN a ELSE b

---------------------------------------------------------------------------
(* Fallback catalog: _get_fallback_quiz *)

\* the three labels of the points table; any other value is unrecognised
Elementary == "shougakusei"
Middle == "chuugakusei"
High == "koukousei"
\* the integer 15 that the parser's except branch passes as difficulty
IntFifteen == "int 15"

\* {"小学生": 10, "中学生": 15, "高校生": 20}.get(difficulty, 15)
PointsFor(difficulty) ==
    CASE difficulty = Elementary -> 10
      [] difficulty = Middle -> 15
      [] difficulty = High -> 20
      [] OTHER -> 15

\* "大仏" in spot_name, "八幡宮" in spot_name
Contains(spot_name, token) == \E i \in 1..Len(spot_name) : spot_name[i] = token

DaibutsuOptions ==
    << <<"built in the 13th century, a national treasure">>,
       <<"a recently made replica">>,
       <<"a statue imported from abroad">>,
       <<"a legendary statue that does not exist">> >>

HachimanguOptions ==
    << <<"Minamoto no Yoritomo">>, <<"Oda Nobunaga">>,
       <<"Toyotomi Hideyoshi">>, <<"Tokugawa Ieyasu">> >>

GenericFallbackOptions ==
    << <<"a historically important place">>,
       <<"a recently built tourist spot">>,
       <<"a fictional place">>,
       <<"a place abroad">> >>

DaibutsuQuiz(spot_name, pts) ==
    [question |-> spot_name \o <<" - which statement about it is correct?">>,
     options |-> DaibutsuOptions,
     correct_answer |-> 0,
     explanation |-> spot_name \o <<" was built in the Kamakura period">>,
     points |-> pts]

HachimanguQuiz(spot_name, pts) ==
    [question |-> spot_name \o <<" - who is closely related to it?">>,
     options |-> HachimanguOptions,
     correct_answer |-> 0,
     explanation |-> spot_name \o <<" was revered by Minamoto no Yoritomo">>,
     points |-> pts]

GenericQuiz(spot_name, pts) ==
    [question |-> spot_name \o <<" - which statement about it is correct?">>,
     options |-> GenericFallbackOptions,
     correct_answer |-> 0,
     explanation |-> spot_name \o <<" is an important cultural heritage">>,
     points |-> pts]

\* a plausible slip: the shrine rule tested before the Great Buddha rule
FallbackShrineFirst(spot_name, difficulty) ==
    IF Contains(spot_name, "Hachimangu")
    THEN HachimanguQuiz(spot_name, PointsFor(difficulty))
    ELSE IF Contains(spot_name, "Daibutsu")
    THEN DaibutsuQuiz(spot_name, PointsFor(difficulty))
    ELSE GenericQuiz(spot_name, PointsFor(difficulty))

_get_fallback_quiz(spot_name, difficulty) ==
    IF Contains(spot_name, "Daibutsu")
    THEN DaibutsuQuiz(spot_name, PointsFor(difficulty))
    ELSE IF Contains(spot_name, "Hachimangu")
    THEN HachimanguQuiz(spot_name, PointsFor(difficulty))
    ELSE GenericQuiz(spot_name, PointsFor(difficulty))

---------------------------------------------------------------------------
(* Response parser: _parse_quiz_response *)

MarkQuestion == "Q:"
MarkAnswer == "A:"
MarkExplanation == "E:"
OptionDigits == {"1", "2", "3", "4"}

DefaultQuestion == <<"which statement about this place is correct?">>
DefaultExplanation == <<"known as a historically important place">>
DefaultOptions ==
    << <<"a historically important place">>,
       <<"a recently constructed building">>,
       <<"a place abroad">>,
       <<"a fictional place">> >>

\* a message content: None (isNone) or a text
NoContent == [isNone |-> TRUE, text |-> <<>>]
TextContent(t) == [isNone |-> FALSE, text |-> t]

\* [line.strip() for line in response.split('\n') if line.strip()]
NonEmptyLines(text) ==
    LET pieces == Split(text)
        stripped == [i \in 1..Len(pieces) |-> Strip(pieces[i])]
    IN SelectSeq(stripped, LAMBDA l : l # <<>>)

IsQuestionLine(line) == StartsWith(line, <<MarkQuestion>>)
\* line.startswith(('1.', '2.', '3.', '4.'))
IsOptionLine(line) ==
    Len(line) >= 2 /\ line[1] \in OptionDigits /\ line[2] = "."
IsAnswerLine(line) == StartsWith(line, <<MarkAnswer>>)
IsExplanationLine(line) == StartsWith(line, <<MarkExplanation>>)

\* line.replace('問題:', '').strip()
QuestionOf(line) == Strip(Replace(line, MarkQuestion))
\* line[2:].strip()
OptionOf(line) == Strip(SubSeq(line, 3, Len(line)))
\* int(line.replace('正解:', '').strip()) - 1, and 0 on ValueError
AnswerOf(line) ==
    LET r == ParseInt(Strip(Replace(line, MarkAnswer)))
    IN IF r.ok THEN r.val - 1 ELSE 0
\* line.replace('解説:', '').strip()
ExplanationOf(line) == Strip(Replace(line, MarkExplanation))

InitialFields ==
    [question |-> <<>>, options |-> <<>>, correct_answer |-> 0,
     explanation |-> <<>>]

\* one iteration of the for loop
ScanLine(acc, line) ==
    IF IsQuestionLine(line) THEN [acc EXCEPT !.question = QuestionOf(line)]
    ELSE IF IsOptionLine(line)
        THEN [acc EXCEPT !.options = Append(@, OptionOf(line))]
    ELSE IF IsAnswerLine(line)
        THEN [acc EXCEPT !.correct_answer = AnswerOf(line)]
    ELSE IF IsExplanationLine(line)
        THEN [acc EXCEPT !.explanation = ExplanationOf(line)]
    ELSE acc

RECURSIVE ScanLines(_, _)
ScanLines(acc, lines) ==
    IF lines = <<>> THEN acc
    ELSE ScanLines(ScanLine(acc, Head(lines)), Tail(lines))

\* a plausible slip: the default is used only when too few options were found
KeepFirstFourOptions(options) ==
    IF Len(options) >= 4 THEN SubSeq(options, 1, 4) ELSE DefaultOptions

\* options if len(options) == 4 else [...]
OptionsOrDefault(options) ==
    IF Len(options) = 4 THEN options ELSE DefaultOptions

\* a plausible slip: only the lower end is clamped
ClampBelowOnly(correct_answer) == Max(0, correct_answer)

\* max(0, min(3, correct_answer))
ClampAnswer(correct_answer) == Max(0, Min(3, correct_answer))

_parse_quiz_response(content, pts) ==
    IF content.isNone
    THEN \* None.split raises AttributeError, caught by the except branch
         _get_fallback_quiz(<<>>, IntFifteen)
    ELSE LET acc == ScanLines(InitialFields, NonEmptyLines(content.text))
         IN [question |-> IF acc.question # <<>> THEN acc.question
                          ELSE DefaultQuestion,
             options |-> OptionsOrDefault(acc.options),
             correct_answer |-> ClampAnswer(acc.correct_answer),
             explanation |-> IF acc.explanation # <<>> THEN acc.explanation
                             ELSE DefaultExplanation,
             points |-> pts]

---------------------------------------------------------------------------
(* Inputs *)

NameTokens == {"Daibutsu", "Hachimangu", "Kamakura"}
SpotNames == SeqsUpTo(NameTokens, MaxNameLen)
Difficulties == {Elementary, Middle, High, "daigakusei"}
PointsValues == {10, 15, 20}

\* lines of the option-count family: "1. a", "2.b", "3." (nothing after the
\* marker), " 4. a " (the text of the first, padded), "5.a" (no marker)
OptLines ==
    { <<"1", ".", " ", "a">>, <<"2", ".", "b">>, <<"3", ".">>,
      <<" ", "4", ".", " ", "a", " ">>, <<"5", ".", "a">> }

\* what follows the leading marker in a question/answer/explanation line
FieldBodies ==
    { <<>>, <<" ", "2">>, <<"9">>, <<"0">>, <<"-", "2">>, <<" ", "a", " ">>,
      <<"a", MarkQuestion, "b">>, <<MarkAnswer, "2">>,
      <<"2", " ", MarkExplanation>> }
FieldLines ==
    {<<m>> \o b : m \in {MarkQuestion, MarkAnswer, MarkExplanation},
                  b \in FieldBodies}

\* "問題: Q\n1. A\n2. B\n3. C\n4. D\n正解: 2\n解説: E" (spec scenario 3)
Scenario3 ==
    Join(<< <<MarkQuestion, " ", "q">>, <<"1", ".", " ", "a">>,
            <<"2", ".", " ", "b">>, <<"3", ".", " ", "c">>,
            <<"4", ".", " ", "d">>, <<MarkAnswer, " ", "2">>,
            <<MarkExplanation, " ", "e">> >>)

RawTexts ==
    {Join(ls) : ls \in SeqsUpTo(OptLines, MaxOptLines)}
    \cup {Join(ls) : ls \in SeqsUpTo(FieldLines, MaxFieldLines)}
    \cup {Scenario3, <<"\n", " ", "\n">>}

ParserInputs == {NoContent} \cup {TextContent(t) : t \in RawTexts}

NoQuiz ==
    [question |-> <<>>, options |-> <<>>, correct_answer |-> 0 - 1,
     explanation |-> <<>>, points |-> 0 - 1]

---------------------------------------------------------------------------
(* Pure-function harnesses *)

ServerOff ==
    /\ openai_client = FALSE
    /\ pc = [r \in 1..NumRequests |-> "idle"]
    /\ request = [r \in 1..NumRequests |-> <<>>]
    /\ response = [r \in 1..NumRequests |-> <<>>]
    /\ calls = [r \in 1..NumRequests |-> 0]
    /\ outcome = [r \in 1..NumRequests |-> <<>>]
    /\ producer = [r \in 1..NumRequests |-> "none"]

ParserOff ==
    /\ phase = "off"
    /\ raw = NoContent
    /\ points = 0
    /\ parsed = NoQuiz

FallbackOff ==
    /\ fb_name = <<>>
    /\ fb_difficulty = Middle
    /\ fb_quiz = NoQuiz

InitParse ==
    /\ ServerOff
    /\ FallbackOff
    /\ phase = "input"
    /\ raw \in ParserInputs
    /\ points \in PointsValues
    /\ parsed = NoQuiz

ParseQuiz ==
    /\ phase = "input"
    /\ phase' = "output"
    /\ parsed' = _parse_quiz_response(raw, points)
    /\ UNCHANGED <<raw, points>>
    /\ UNCHANGED serverVars
    /\ UNCHANGED fallbackVars

NextParse == ParseQuiz

SpecParse == InitParse /\ [][NextParse]_vars

InitFallback ==
    /\ ServerOff
    /\ phase = "input"
    /\ raw = NoContent
    /\ points = 0
    /\ parsed = NoQuiz
    /\ fb_name \in SpotNames
    /\ fb_difficulty \in Difficulties \cup {IntFifteen}
    /\ fb_quiz = NoQuiz

FallbackQuiz ==
    /\ phase = "input"
    /\ phase' = "output"
    /\ fb_quiz' = _get_fallback_quiz(fb_name, fb_difficulty)
    /\ UNCHANGED <<raw, points, parsed, fb_name, fb_difficulty>>
    /\ UNCHANGED serverVars

NextFallback == FallbackQuiz

SpecFallback == InitFallback /\ [][NextFallback]_vars

---------------------------------------------------------------------------
(* The generation endpoint: generate_ai_quiz, _generate_quiz_with_openai *)

Slots == 1..NumRequests

\* 鎌倉大仏 and a name matching no catalog rule
ServerSpotNames == {<<"Kamakura", "Daibutsu">>, <<"Kamakura">>}
Descriptions == {<<"description">>}

\* QuizRequest
QuizRequests ==
    [spot_name : ServerSpotNames, spot_description : Descriptions,
     difficulty : Difficulties]

\* QuizResponse; quiz is Optional: <<>> is None, <<q>> is the quiz q
QuizResponse(ok, quiz, tag) ==
    [success |-> ok, quiz |-> <<quiz>>, generated_by |-> tag]

\* How the awaited provider call ends: it raises, or it returns a response
\* object whose choices may be empty, whose message content may be None and
\* whose usage may be missing.
Raises == [raises |-> TRUE, has_choices |-> FALSE, content |-> NoContent,
           has_usage |-> FALSE]
Returns(choices, content, usage) ==
    [raises |-> FALSE, has_choices |-> choices, content |-> content,
     has_usage |-> usage]


\* the contents the provider returns when several requests run concurrently
ServerContents == {NoContent, TextContent(Scenario3)}

ProviderOutcomes(contents) ==
    {Raises, Returns(FALSE, NoContent, TRUE)}
    \cup {Returns(TRUE, c, TRUE) : c \in contents}
    \cup {Returns(TRUE, c, FALSE) : c \in contents \cap ServerContents}

ServerOutcomes == ProviderOutcomes(ServerContents)
AnyTextOutcomes == ProviderOutcomes(ParserInputs)

\* which step of _generate_quiz_with_openai a provider outcome reaches
OutcomeKind(o) ==
    IF o.raises THEN "raise"
    ELSE IF ~o.has_choices THEN "no_choices"
    ELSE IF o.content.isNone THEN "no_content"
    ELSE IF ~o.has_usage THEN "no_usage"
    ELSE "text"

\* The part of _generate_quiz_with_openai after the await: an exception
\* (raised = TRUE) or the parsed quiz.
\*   response.choices[0]         raises IndexError without choices
\*   _parse_quiz_response(...)   never raises
\*   response.usage.total_tokens raises AttributeError without usage
GenerateResult(req, o) ==
    IF o.raises \/ ~o.has_choices \/ ~o.has_usage
    THEN [raised |-> TRUE, quiz |-> NoQuiz,
          by |-> "none"]
    ELSE [raised |-> FALSE,
          quiz |-> _parse_quiz_response(o.content, PointsFor(req.difficulty)),
          by |-> IF o.content.isNone THEN "catalog" ELSE "parser"]

Init ==
    /\ openai_client \in BOOLEAN
    /\ pc = [r \in Slots |-> "idle"]
    /\ request = [r \in Slots |-> <<>>]
    /\ response = [r \in Slots |-> <<>>]
    /\ calls = [r \in Slots |-> 0]
    /\ outcome = [r \in Slots |-> <<>>]
    /\ producer = [r \in Slots |-> "none"]
    /\ ParserOff
    /\ FallbackOff

\* the framework hands a validated QuizRequest to the handler
Receive(r, req) ==
    /\ pc[r] = "idle"
    /\ pc' = [pc EXCEPT ![r] = "received"]
    /\ request' = [request EXCEPT ![r] = <<req>>]
    /\ UNCHANGED <<openai_client, response, calls, outcome, producer>>
    /\ UNCHANGED parserVars
    /\ UNCHANGED fallbackVars

\* generate_ai_quiz up to its first suspension: without a client the
\* fallback response is returned; with one the provider call is issued
StartRequest(r) ==
    /\ pc[r] = "received"
    /\ IF ~openai_client
       THEN /\ response' = [response EXCEPT ![r] =
                   <<QuizResponse(TRUE,
                        _get_fallback_quiz(request[r][1].spot_name,
                                           request[r][1].difficulty),
                        "fallback")>>]
            /\ producer' = [producer EXCEPT ![r] = "catalog"]
            /\ pc' = [pc EXCEPT ![r] = "done"]
            /\ UNCHANGED calls
       ELSE /\ calls' = [calls EXCEPT ![r] = @ + 1]
            /\ pc' = [pc EXCEPT ![r] = "calling"]
            /\ UNCHANGED <<response, producer>>
    /\ UNCHANGED <<openai_client, request, outcome>>
    /\ UNCHANGED parserVars
    /\ UNCHANGED fallbackVars

\* a plausible slip: a failed call is retried
CompleteCallRetrying(r, o) ==
    /\ pc[r] = "calling"
    /\ outcome' = [outcome EXCEPT ![r] = <<o>>]
    /\ \E g \in {GenerateResult(request[r][1], o)} :
       IF g.raised
       THEN /\ pc' = [pc EXCEPT ![r] = "received"]
            /\ UNCHANGED <<response, producer>>
       ELSE /\ response' = [response EXCEPT ![r] =
                   <<QuizResponse(TRUE, g.quiz, "openai")>>]
            /\ producer' = [producer EXCEPT ![r] = g.by]
            /\ pc' = [pc EXCEPT ![r] = "done"]
    /\ UNCHANGED <<openai_client, request, calls>>
    /\ UNCHANGED parserVars
    /\ UNCHANGED fallbackVars

\* a plausible slip: the client is dropped after a failed call
CompleteCallDroppingClient(r, o) ==
    /\ pc[r] = "calling"
    /\ outcome' = [outcome EXCEPT ![r] = <<o>>]
    /\ \E g \in {GenerateResult(request[r][1], o)} :
       /\ response' = [response EXCEPT ![r] =
              IF g.raised
              THEN <<QuizResponse(TRUE,
                        _get_fallback_quiz(request[r][1].spot_name,
                                           request[r][1].difficulty),
                        "fallback")>>
              ELSE <<QuizResponse(TRUE, g.quiz, "openai")>>]
       /\ producer' = [producer EXCEPT ![r] =
              IF g.raised THEN "catalog" ELSE g.by]
       /\ openai_client' = IF g.raised THEN FALSE ELSE openai_client
    /\ pc' = [pc EXCEPT ![r] = "done"]
    /\ UNCHANGED <<request, calls>>
    /\ UNCHANGED parserVars
    /\ UNCHANGED fallbackVars

\* the awaited call ends with outcome o: the rest of
\* _generate_quiz_with_openai runs, then generate_ai_quiz returns the parsed
\* quiz, or the fallback quiz when an exception reached its except branch
CompleteCall(r, o) ==
    /\ pc[r] = "calling"
    /\ outcome' = [outcome EXCEPT ![r] = <<o>>]
    /\ \E g \in {GenerateResult(request[r][1], o)} :
       /\ response' = [response EXCEPT ![r] =
              IF g.raised
              THEN <<QuizResponse(TRUE,
                        _get_fallback_quiz(request[r][1].spot_name,
                                           request[r][1].difficulty),
                        "fallback")>>
              ELSE <<QuizResponse(TRUE, g.quiz, "openai")>>]
       /\ producer' = [producer EXCEPT ![r] =
              IF g.raised THEN "catalog" ELSE g.by]
    /\ pc' = [pc EXCEPT ![r] = "done"]
    /\ UNCHANGED <<openai_client, request, calls>>
    /\ UNCHANGED parserVars
    /\ UNCHANGED fallbackVars

Next ==
    \E r \in Slots :
        \/ \E req \in QuizRequests : Receive(r, req)
        \/ StartRequest(r)
        \/ pc[r] = "calling" /\ \E o \in ServerOutcomes : CompleteCall(r, o)

Spec == Init /\ [][Next]_vars

\* one request, the provider returning any content of the parser's inputs
NextAnyText ==
    \/ \E req \in QuizRequests : Receive(1, req)
    \/ StartRequest(1)
    \/ pc[1] = "calling" /\ \E o \in AnyTextOutcomes : CompleteCall(1, o)

SpecAnyText == Init /\ [][NextAnyText]_vars

---------------------------------------------------------------------------
(* Properties *)

Done(r) == pc[r] = "done"
Req(r) == request[r][1]
Resp(r) == response[r][1]
QuizOf(r) == response[r][1].quiz[1]
Kind(r) == IF outcome[r] = <<>> THEN "none" ELSE OutcomeKind(outcome[r][1])

\* the trimmed non-empty lines of the parser's input text
InputLines == NonEmptyLines(raw.text)
MarkedLines == SelectSeq(InputLines, IsOptionLine)
QuestionLines == SelectSeq(InputLines, IsQuestionLine)
AnswerLines == SelectSeq(InputLines, IsAnswerLine)
ExplanationLines == SelectSeq(InputLines, IsExplanationLine)
ParsedText == phase = "output" /\ ~raw.isNone

\* C1: every response of the generation endpoint has success = true and a
\* present quiz with exactly 4 options, an integer correct_answer in 0..3,
\* and a non-empty question and explanation, whatever the provider did.
C1_ResponseIsValid ==
    \A r \in Slots : Done(r) =>
        /\ Resp(r).success = TRUE
        /\ Len(Resp(r).quiz) = 1
        /\ Len(QuizOf(r).options) = 4
        /\ QuizOf(r).correct_answer \in 0..3
        /\ QuizOf(r).question # <<>>
        /\ QuizOf(r).explanation # <<>>

\* a response built from provider text with an answer of 9, no question line
\* and no option line
C1_Witness ==
    /\ Done(1)
    /\ Kind(1) = "text"
    /\ Resp(1).generated_by = "openai"
    /\ outcome[1][1].content.text = <<MarkAnswer, "9">>
    /\ QuizOf(1).correct_answer = 3
    /\ QuizOf(1).options = DefaultOptions
    /\ QuizOf(1).question = DefaultQuestion

\* C2: on every path of the endpoint the returned quiz's points equal the
\* fixed lookup of the request's difficulty (10, 15, 20, otherwise 15).
C2_PointsFollowDifficulty ==
    \A r \in Slots : Done(r) =>
        QuizOf(r).points =
            (CASE Req(r).difficulty = Elementary -> 10
               [] Req(r).difficulty = Middle -> 15
               [] Req(r).difficulty = High -> 20
               [] OTHER -> 15)

\* C3: in every quiz the parser returns, the four options are non-empty and
\* pairwise distinct.
C3_OptionsDistinctNonEmpty ==
    phase = "output" =>
        /\ \A i \in 1..Len(parsed.options) : parsed.options[i] # <<>>
        /\ \A i, j \in 1..Len(parsed.options) :
               i # j => parsed.options[i] # parsed.options[j]

\* C4: generated_by is "fallback" exactly when the quiz was built by the
\* fallback catalog and "openai" exactly when it was built by the parser from
\* provider text; and when the provider is unconfigured or generation failed
\* in any way the quiz is the fallback quiz of the request's own spot_name
\* and difficulty.
C4_TagMatchesProducer ==
    \A r \in Slots : Done(r) =>
        /\ Resp(r).generated_by = "fallback" <=> producer[r] = "catalog"
        /\ Resp(r).generated_by = "openai" <=> producer[r] = "parser"
        /\ Kind(r) # "text" =>
               QuizOf(r) = _get_fallback_quiz(Req(r).spot_name,
                                              Req(r).difficulty)

\* C5: without a client no provider call is made before the response; with a
\* client the provider is called exactly once and the request then goes
\* straight to its response: no second call, no return to the attempt state.
C5_AtMostOneCall ==
    /\ [](\A r \in Slots :
            /\ calls[r] <= 1
            /\ ~openai_client => calls[r] = 0
            /\ pc[r] = "calling" => calls[r] = 1
            /\ (Done(r) /\ openai_client) => calls[r] = 1)
    /\ [][\A r \in Slots :
            /\ pc[r] = "calling" => pc'[r] \in {"calling", "done"}
            /\ Done(r) => (Done(r))' /\ calls'[r] = calls[r]]_vars

\* a configured request answered after its single provider call failed
C5_Witness ==
    /\ openai_client
    /\ Done(1)
    /\ calls[1] = 1
    /\ Kind(1) = "raise"
    /\ Resp(1).generated_by = "fallback"

\* C6: the fallback catalog takes the first matching rule: the Great Buddha
\* quiz for a name containing that token (also when the shrine token is
\* present), else the shrine quiz, whose first option is the historical
\* figure, for a name containing the shrine token, else the generic quiz; in
\* all cases correct_answer = 0 and there are 4 options.
C6_FirstMatchWins ==
    phase = "output" =>
        /\ Contains(fb_name, "Daibutsu") =>
               fb_quiz.options = DaibutsuOptions
        /\ (~Contains(fb_name, "Daibutsu") /\ Contains(fb_name, "Hachimangu")) =>
               /\ fb_quiz.options = HachimanguOptions
               /\ fb_quiz.options[1] = <<"Minamoto no Yoritomo">>
        /\ (~Contains(fb_name, "Daibutsu") /\ ~Contains(fb_name, "Hachimangu")) =>
               fb_quiz.options = GenericFallbackOptions
        /\ fb_quiz.correct_answer = 0
        /\ Len(fb_quiz.options) = 4

\* a name holding both tokens, shrine token first, got the Great Buddha quiz
C6_Witness ==
    /\ phase = "output"
    /\ fb_name = <<"Hachimangu", "Daibutsu">>
    /\ fb_quiz.options = DaibutsuOptions
    /\ fb_quiz.correct_answer = 0

\* C7: request handling never changes the provider configuration, and a
\* response depends only on the request's own input and the outcome of its
\* own provider call: two answered requests with the same input and the same
\* outcome (none, when unconfigured) have the same response, whatever the
\* other requests did in between.
C7_NoInterference ==
    /\ [][openai_client' = openai_client]_vars
    /\ [](\A r1, r2 \in Slots :
            (Done(r1) /\ Done(r2) /\ request[r1] = request[r2]
                /\ outcome[r1] = outcome[r2]) =>
            response[r1] = response[r2])

\* two requests with the same input answered without a client, identically
C7_Witness ==
    /\ ~openai_client
    /\ Done(1) /\ Done(2)
    /\ request[1] = request[2]
    /\ QuizOf(1) = QuizOf(2)
    /\ Resp(1).generated_by = "fallback"

\* C8: with exactly 4 lines beginning with an option marker (repeats of a
\* marker counted, any order) the options are the trimmed remainders of those
\* lines after the 2-character marker, in text order; with any other number
\* of such lines they are the fixed generic list.
C8_OptionsRule ==
    ParsedText =>
        parsed.options =
            IF Len(MarkedLines) = 4
            THEN [i \in 1..4 |->
                     Strip(SubSeq(MarkedLines[i], 3, Len(MarkedLines[i])))]
            ELSE DefaultOptions

\* four marked lines out of numeric order, one marker used twice
C8_Witness ==
    /\ ParsedText
    /\ Len(MarkedLines) = 4
    /\ MarkedLines[1][1] = "4"
    /\ MarkedLines[2][1] = "4"
    /\ MarkedLines[3][1] = "2"
    /\ parsed.options[1] = <<"a">>
    /\ parsed.options[3] = <<"b">>

\* C9: correct_answer is n - 1 clamped into [0,3] when the remainder of the
\* (last) answer line after its marker is an integer n, 0 when it is not an
\* integer, and 0 without an answer line.
C9_AnswerRule ==
    ParsedText =>
        parsed.correct_answer =
            IF AnswerLines = <<>> THEN 0
            ELSE LET n == ParseInt(Tail(AnswerLines[Len(AnswerLines)]))
                 IN IF ~n.ok THEN 0
                    ELSE IF n.val - 1 < 0 THEN 0
                    ELSE IF n.val - 1 > 3 THEN 3
                    ELSE n.val - 1

\* C10: with exactly one question line and exactly one explanation line, the
\* question and the explanation are the trimmed text of their line after the
\* leading marker only, later occurrences of the marker kept; the default is
\* used only when that remainder is empty.
C10_LeadingMarkerOnly ==
    (ParsedText /\ Len(QuestionLines) = 1 /\ Len(ExplanationLines) = 1) =>
        LET q == Strip(StripLeading(QuestionLines[1], MarkQuestion))
            e == Strip(StripLeading(ExplanationLines[1], MarkExplanation))
        IN /\ parsed.question = IF q # <<>> THEN q ELSE DefaultQuestion
           /\ parsed.explanation = IF e # <<>> THEN e ELSE DefaultExplanation

---------------------------------------------------------------------------
(* Where the answer and marker rules do hold: lines that carry their marker *)
(* once, at the start.                                                      *)

MarkerOnlyLeads(line, marker) == Replace(Tail(line), marker) = Tail(line)

\* the rule of C9 on texts whose last answer line has no second answer marker
AnswerRuleWithoutRepeatedMarker ==
    (ParsedText /\ AnswerLines # <<>>
        /\ MarkerOnlyLeads(AnswerLines[Len(AnswerLines)], MarkAnswer)) =>
        LET n == ParseInt(Tail(AnswerLines[Len(AnswerLines)]))
        IN parsed.correct_answer =
               IF ~n.ok THEN 0
               ELSE IF n.val - 1 < 0 THEN 0
               ELSE IF n.val - 1 > 3 THEN 3
               ELSE n.val - 1

\* the rule of C10 on texts whose question and explanation lines have no
\* second occurrence of their own marker
MarkerRuleWithoutRepeatedMarker ==
    (ParsedText /\ Len(QuestionLines) = 1 /\ Len(ExplanationLines) = 1
        /\ MarkerOnlyLeads(QuestionLines[1], MarkQuestion)
        /\ MarkerOnlyLeads(ExplanationLines[1], MarkExplanation)) =>
        LET q == Strip(StripLeading(QuestionLines[1], MarkQuestion))
            e == Strip(StripLeading(ExplanationLines[1], MarkExplanation))
        IN /\ parsed.question = IF q # <<>> THEN q ELSE DefaultQuestion
           /\ parsed.explanation = IF e # <<>> THEN e ELSE DefaultExplanation

====
